---- MODULE Spec2Model ----
(***************************************************************************)
(* Model of the Runloop runtimes of OpenHands:                             *)
(*   RunloopRuntime   (openhands/runtime/runloop/runtime.py)               *)
(*   RunloopRuntime2  (openhands/runtime/runloop/runtime2.py)              *)
(*                                                                         *)
(* One runtime object is modelled per behaviour (the variable runtime says *)
(* which class it is).  The remote provider is the environment: its status *)
(* of the devbox changes at any time, every remote call may raise, and the *)
(* remote /tmp directory holds the uploaded archives.  Each remote call of *)
(* the code is one step of the caller that issues it.                      *)
(***************************************************************************)
EXTENDS Naturals, FiniteSets, Sequences, TLC

(* ------------------------------ bounds -------------------------------- *)

\* number of threads that may call the public actions of one runtime object
NumCallers == 2
\* number of distinct devbox ids the provider may hand out
NumIds == 2
\* recursive copies are issued only while fewer local archives than this exist
MaxArchives == 2
\* SpecPoll follows each thread's readiness poll up to this attempt number
PollBound == 3

(* ------------------------- program constants -------------------------- *)

\* tenacity.stop_after_attempt(60) of RunloopRuntime._wait_until_alive
AliveAttempts == 60
\* tenacity.stop_after_attempt(90) of RunloopRuntime2._wait_for_devbox
DevboxAttempts == 90

(* ------------------------------ domains ------------------------------- *)

Callers == 1..NumCallers
\* the thread that constructs the runtime
MainCaller == 1
DevboxIds == 1..NumIds
\* 0 stands for "no devbox / no id yet" (None in the code)
NoId == 0

Runtimes == {"RunloopRuntime", "RunloopRuntime2"}
\* status values of the provider (spec section 3); the code tests only 'running'
Statuses == {"pending", "running", "failed", "stopped"}
\* messages carried by a provider status error (APIStatusError.message)
Messages == {"quota exceeded", "devbox not found"}
\* stdout values and exit statuses an execution may report
Stdouts == {"out1", "out2"}
ExitStatuses == {0, 1}

\* local source paths handed to copy_to, and which of them is a directory
HostPaths == {<<"home", "file.txt">>, <<"home", "srcdir">>}
is_dir(p) == p = <<"home", "srcdir">>
\* Path(host_src).name: the last component of the path
name(p) == p[Len(p)]
\* the path named by the actions that take no local source
NoSrc == <<"home", "file.txt">>
\* commands handed to run
Commands == {"make", "pytest"}
\* remote destinations handed to copy_to
Dests == {"workspace", "uploaded"}

\* line 141: tmp_zip_file_path = f'/tmp/{sandbox_dest}.zip'
tmp_zip_file_path(sandbox_dest) == "/tmp/" \o sandbox_dest \o ".zip"
\* line 163: the archive the extraction command reads
unzip_source == "/tmp/uploaded.zip"

NoDevbox == [id |-> NoId, status |-> "none"]

\* the action a caller has invoked, with its arguments
RunOps == [kind : {"run"}, command : Commands,
           src : {NoSrc}, dest : {"workspace"}, recursive : {FALSE}]
SimpleOps == RunOps \cup
             [kind : {"read", "write", "list_files"}, command : {""},
              src : {NoSrc}, dest : {"workspace"}, recursive : {FALSE}]
CopyOps == [kind : {"copy_to"}, command : {""},
            src : HostPaths, dest : Dests, recursive : BOOLEAN]
Ops == SimpleOps \cup CopyOps
NoOp == [kind |-> "none", command |-> "",
         src |-> NoSrc, dest |-> "workspace", recursive |-> FALSE]

\* what an action handed back to its caller: a value or a raised exception
NoResult == [type |-> "none", content |-> "", exit_code |-> 0, command |-> ""]
ExceptionTypes == {"RetryError", "APIStatusError", "Exception", "ValueError"}
Raised(r) == r.type \in ExceptionTypes
\* what the action's own remote call raised (type "none": it returned)
NoRaise == [type |-> "none", message |-> "", at |-> "none"]
\* no remote call issued by the body of the action yet
NoCall == [name |-> "none", arg |-> "", stdout |-> "", exit_status |-> 0]

VARIABLES
    runtime,          \* which class the object is
    constructed,      \* "no", "yes", "failed": state of __init__
    devbox,           \* self.devbox, the cached handle
    action_semaphore, \* RunloopRuntime2.action_semaphore: "unset", "free", "held"
    runtime_id,       \* RunloopRuntime2.runtime_id (NoId = None)
    runtime_url,      \* RunloopRuntime2.runtime_url ("" = None)
    tunnels,          \* number of create_tunnel calls issued
    remoteId,         \* provider: id of the devbox it created
    remoteStatus,     \* provider: current status of the devbox
    remoteFiles,      \* provider: archives present under the remote /tmp
    localArchives,    \* local temporary archive files that exist
    pc,               \* per caller: where it is
    op,               \* per caller: the action it invoked
    attempt,          \* per caller: tenacity's attempt number of the running wait
    queries,          \* per caller: status queries issued by the invocation
    sleeps,           \* per caller: backoff sleeps of the invocation
    issued,           \* per caller: remote operations issued by the invocation
    fetched,          \* per caller: the local variable devbox of the poller
    raised,           \* per caller: what the action's own remote call raised
    call,             \* per caller: the last remote call of the action's body,
                      \*             with its argument and what it reported
    result            \* per caller: what the last invocation handed back

vars == <<runtime, constructed, devbox, action_semaphore, runtime_id, runtime_url,
          tunnels, remoteId, remoteStatus, remoteFiles, localArchives,
          pc, op, attempt, queries, sleeps, issued, fetched, raised, call, result>>

facade == <<runtime, action_semaphore, runtime_id, runtime_url, tunnels>>
remote == <<remoteId, remoteStatus, remoteFiles>>
frame == <<attempt, queries, sleeps, issued, fetched, call>>

(* ------------------------------ helpers ------------------------------- *)

Finish(c, r) ==
    /\ pc' = [pc EXCEPT ![c] = "idle"]
    /\ result' = [result EXCEPT ![c] = r]

Exc(t, m) == [type |-> t, content |-> m, exit_code |-> 0, command |-> ""]

\* mutant: the status query answers with the record of another devbox
retrieve_other(id) == [id |-> (id % NumIds) + 1, status |-> remoteStatus]

\* devboxes.retrieve(id): the provider's record of the devbox with that id
retrieve(id) == [id |-> id, status |-> remoteStatus]

\* where an action continues once _wait_until_alive has returned
BodyEntry(o) ==
    CASE o.kind = "run" -> "run"
      [] o.kind = "read" -> "read"
      [] o.kind = "write" -> "write"
      [] o.kind = "list_files" -> "list_files"
      [] o.kind = "copy_to" /\ o.recursive -> "zip"
      [] o.kind = "copy_to" /\ ~o.recursive -> "is_dir"

\* the program points of an action's body, after its readiness check
BodyPcs == {"run", "read", "write", "list_files", "zip", "upload_zip", "unzip",
            "is_dir", "mkdir", "upload_file"}

\* mutant: the stop condition lets one attempt too many through
StopAfterAttempt_late(n, cap) == n > cap

\* tenacity.stop_after_attempt(cap): stop once the attempt number reaches cap
StopAfterAttempt(n, cap) == n >= cap

\* the attempt cap of the poller of the modelled class
WaitCap == IF runtime = "RunloopRuntime" THEN AliveAttempts ELSE DevboxAttempts

\* tenacity.retry: an attempt raised; either give up with RetryError or sleep
\* the fixed wait and run the function again
AttemptRaised(c) ==
    IF StopAfterAttempt(attempt[c], WaitCap)
    THEN /\ pc' = [pc EXCEPT ![c] = IF runtime = "RunloopRuntime" THEN "idle" ELSE "dead"]
         /\ result' = [result EXCEPT ![c] = Exc("RetryError", "")]
         /\ constructed' = IF runtime = "RunloopRuntime2" THEN "failed" ELSE constructed
         /\ UNCHANGED <<attempt, sleeps>>
    ELSE /\ pc' = [pc EXCEPT ![c] = "wait"]
         /\ attempt' = [attempt EXCEPT ![c] = @ + 1]
         /\ sleeps' = [sleeps EXCEPT ![c] = @ + 1]
         /\ UNCHANGED <<result, constructed>>

\* a fresh frame for an invocation by caller c
NewFrame(c) ==
    /\ attempt' = [attempt EXCEPT ![c] = 1]
    /\ queries' = [queries EXCEPT ![c] = 0]
    /\ sleeps' = [sleeps EXCEPT ![c] = 0]
    /\ issued' = [issued EXCEPT ![c] = {}]
    /\ fetched' = [fetched EXCEPT ![c] = NoDevbox]
    /\ raised' = [raised EXCEPT ![c] = NoRaise]
    /\ call' = [call EXCEPT ![c] = NoCall]
    /\ result' = [result EXCEPT ![c] = NoResult]

(* ------------------------------- Init --------------------------------- *)

Init ==
    /\ runtime \in Runtimes
    /\ constructed = "no"
    /\ devbox = NoDevbox
    /\ action_semaphore = "unset"
    /\ runtime_id = NoId
    /\ runtime_url = ""
    /\ tunnels = 0
    /\ remoteId = NoId
    /\ remoteStatus = "none"
    /\ remoteFiles = {}
    /\ localArchives = 0
    /\ pc = [c \in Callers |-> IF c = MainCaller THEN "init" ELSE "idle"]
    /\ op = [c \in Callers |-> NoOp]
    /\ attempt = [c \in Callers |-> 1]
    /\ queries = [c \in Callers |-> 0]
    /\ sleeps = [c \in Callers |-> 0]
    /\ issued = [c \in Callers |-> {}]
    /\ fetched = [c \in Callers |-> NoDevbox]
    /\ raised = [c \in Callers |-> NoRaise]
    /\ call = [c \in Callers |-> NoCall]
    /\ result = [c \in Callers |-> NoResult]

(* --------------------- RunloopRuntime.__init__ ------------------------ *)

\* runtime.py 37-63: devboxes.create returns the handle or raises
RunloopRuntime_init(c) ==
    /\ runtime = "RunloopRuntime"
    /\ pc[c] = "init"
    /\ \/ \E i \in DevboxIds, s \in Statuses :
            /\ devbox' = [id |-> i, status |-> s]
            /\ remoteId' = i
            /\ remoteStatus' = s
            /\ constructed' = "yes"
            /\ pc' = [pc EXCEPT ![c] = "idle"]
            /\ UNCHANGED result
       \/ /\ constructed' = "failed"
          /\ pc' = [pc EXCEPT ![c] = "dead"]
          /\ result' = [result EXCEPT ![c] = Exc("Exception", "")]
          /\ UNCHANGED <<devbox, remoteId, remoteStatus>>
    /\ UNCHANGED <<facade, remoteFiles, localArchives, op, frame, raised>>

(* ------------------ RunloopRuntime._wait_until_alive ------------------ *)

\* mutant: the poller returns whatever the cached handle reports
wait_until_alive_cached_any(c) ==
    /\ runtime = "RunloopRuntime"
    /\ pc[c] = "wait"
    /\ pc' = [pc EXCEPT ![c] = BodyEntry(op[c])]
    /\ UNCHANGED <<facade, constructed, devbox, remote, localArchives, op, frame,
                   raised, result>>

\* mutant: the status is queried before the cached handle is looked at
wait_until_alive_cached_queries(c) ==
    /\ runtime = "RunloopRuntime"
    /\ pc[c] = "wait"
    /\ devbox.status = "running"
    /\ queries' = [queries EXCEPT ![c] = @ + 1]
    /\ issued' = [issued EXCEPT ![c] = @ \cup {"retrieve"}]
    /\ pc' = [pc EXCEPT ![c] = BodyEntry(op[c])]
    /\ UNCHANGED <<facade, constructed, devbox, remote, localArchives, op, attempt,
                   sleeps, fetched, raised, call, result>>

\* runtime.py 71-72: the cached handle reports running
wait_until_alive_cached(c) ==
    /\ runtime = "RunloopRuntime"
    /\ pc[c] = "wait"
    /\ devbox.status = "running"
    /\ pc' = [pc EXCEPT ![c] = BodyEntry(op[c])]
    /\ UNCHANGED <<facade, constructed, devbox, remote, localArchives, op, frame,
                   raised, result>>

\* runtime.py 71-78: status query; not running (or the query raised) fails the attempt
wait_until_alive_retrieve(c) ==
    /\ runtime = "RunloopRuntime"
    /\ pc[c] = "wait"
    /\ devbox.status # "running"
    /\ queries' = [queries EXCEPT ![c] = @ + 1]
    /\ issued' = [issued EXCEPT ![c] = @ \cup {"retrieve"}]
    /\ \/ /\ retrieve(devbox.id).status = "running"
          /\ fetched' = [fetched EXCEPT ![c] = retrieve(devbox.id)]
          /\ pc' = [pc EXCEPT ![c] = "cd"]
          /\ UNCHANGED <<attempt, sleeps, result, constructed>>
       \/ /\ retrieve(devbox.id).status # "running"
          /\ AttemptRaised(c)
          /\ UNCHANGED fetched
       \/ /\ AttemptRaised(c)
          /\ UNCHANGED fetched
    /\ UNCHANGED <<facade, devbox, remote, localArchives, op, raised, call>>

\* mutant: the poller sleeps the fixed wait once more before it returns
wait_until_alive_cd_sleeps(c) ==
    /\ runtime = "RunloopRuntime"
    /\ pc[c] = "cd"
    /\ issued' = [issued EXCEPT ![c] = @ \cup {"execute_sync"}]
    /\ \/ /\ devbox' = fetched[c]
          /\ pc' = [pc EXCEPT ![c] = BodyEntry(op[c])]
          /\ sleeps' = [sleeps EXCEPT ![c] = @ + 1]
          /\ UNCHANGED <<attempt, result, constructed>>
       \/ /\ AttemptRaised(c)
          /\ UNCHANGED devbox
    /\ UNCHANGED <<facade, remote, localArchives, op, queries, fetched, raised, call>>

\* runtime.py 80-87: session initialisation, then the refreshed handle is adopted
wait_until_alive_cd(c) ==
    /\ runtime = "RunloopRuntime"
    /\ pc[c] = "cd"
    /\ issued' = [issued EXCEPT ![c] = @ \cup {"execute_sync"}]
    /\ \/ /\ devbox' = fetched[c]
          /\ pc' = [pc EXCEPT ![c] = BodyEntry(op[c])]
          /\ UNCHANGED <<attempt, sleeps, result, constructed>>
       \/ /\ AttemptRaised(c)
          /\ UNCHANGED devbox
    /\ UNCHANGED <<facade, remote, localArchives, op, queries, fetched, raised, call>>

(* ------------------- RunloopRuntime: public actions ------------------- *)

\* every public action starts with self._wait_until_alive()
Invoke(c, o) ==
    /\ runtime = "RunloopRuntime"
    /\ constructed = "yes"
    /\ pc[c] = "idle"
    /\ op' = [op EXCEPT ![c] = o]
    /\ pc' = [pc EXCEPT ![c] = "wait"]
    /\ NewFrame(c)
    /\ UNCHANGED <<facade, constructed, devbox, remote, localArchives>>

run(c) == \E o \in SimpleOps : o.kind = "run" /\ Invoke(c, o)
read(c) == \E o \in SimpleOps : o.kind = "read" /\ Invoke(c, o)
write(c) == \E o \in SimpleOps : o.kind = "write" /\ Invoke(c, o)
list_files(c) == \E o \in SimpleOps : o.kind = "list_files" /\ Invoke(c, o)
copy_to(c) ==
    \E o \in CopyOps :
        /\ o.recursive => localArchives < MaxArchives
        /\ Invoke(c, o)

\* the action's own remote call raised exception e at program point pc[c]
Raise(c, t, m) == raised' = [raised EXCEPT ![c] = [type |-> t, message |-> m, at |-> pc[c]]]

Issue(c, n) == issued' = [issued EXCEPT ![c] = @ \cup {n}]

\* the body of the action issues remote call n with argument a; the call reports
\* stdout out and exit status st (both empty when it raised)
Call(c, n, a, out, st) ==
    call' = [call EXCEPT ![c] = [name |-> n, arg |-> a, stdout |-> out, exit_status |-> st]]

\* runtime.py 172: the command that creates the destination directory
mkdir_command(sandbox_dest) == "mkdir -p " \o sandbox_dest
\* runtime.py 180: path=f'{sandbox_dest}/{host_path.name}'
upload_path(sandbox_dest, host_path) == sandbox_dest \o "/" \o name(host_path)
\* runtime.py 188: command=f'ls {path}'
ls_command == "ls " \o "path"

\* mutant: the observation reports success whatever the exit status was
CmdOutputObservation_ok(stdout, exit_status, command) ==
    [type |-> "CmdOutputObservation", content |-> stdout, exit_code |-> 0,
     command |-> command]

\* runtime.py 209-214
CmdOutputObservation(stdout, exit_status, command) ==
    [type |-> "CmdOutputObservation", content |-> stdout, exit_code |-> exit_status,
     command |-> command]
\* runtime.py 98-103
FileReadObservation(contents) ==
    [type |-> "FileReadObservation", content |-> contents, exit_code |-> 0, command |-> ""]
\* runtime.py 114-117
FileWriteObservation ==
    [type |-> "FileWriteObservation", content |-> "", exit_code |-> 0, command |-> ""]
ErrorObservation(m) ==
    [type |-> "ErrorObservation", content |-> m, exit_code |-> 0, command |-> ""]
\* a call that returned no observation: the listing, or None of copy_to
Returned(v) == [type |-> "returned", content |-> v, exit_code |-> 0, command |-> ""]

\* runtime.py 216-219: what run hands back when execute_sync raised exception e
run_except(e) ==
    IF e.type = "APIStatusError" THEN ErrorObservation(e.message)
    ELSE Exc(e.type, e.message)

\* runtime.py 95-97: read has no handler, the exception leaves the action
read_except(e) == Exc(e.type, e.message)

\* runtime.py 119-127: both handlers of write
write_except(e) == ErrorObservation(e.message)

\* runtime.py 191-196: list_files logs and raises again
list_files_except(e) == Exc(e.type, e.message)

Errors == [type : {"APIStatusError", "Exception"}, message : Messages]

\* mutant: a failed execution marks the cached handle as failed
run_execute_sync_marks(c) ==
    /\ pc[c] = "run"
    /\ Issue(c, "execute_sync")
    /\ \/ \E out \in Stdouts, st \in ExitStatuses :
            /\ Call(c, "execute_sync", op[c].command, out, st)
            /\ Finish(c, CmdOutputObservation(call'[c].stdout, call'[c].exit_status,
                                              op[c].command))
            /\ UNCHANGED <<raised, devbox>>
       \/ \E e \in Errors :
            /\ Call(c, "execute_sync", op[c].command, "", 0)
            /\ Raise(c, e.type, e.message)
            /\ Finish(c, run_except(e))
            /\ devbox' = [devbox EXCEPT !.status = "failed"]
    /\ UNCHANGED <<facade, constructed, remote, localArchives, op,
                   attempt, queries, sleeps, fetched>>

\* runtime.py 203-219
run_execute_sync(c) ==
    /\ pc[c] = "run"
    /\ Issue(c, "execute_sync")
    /\ \/ \E out \in Stdouts, st \in ExitStatuses :
            /\ Call(c, "execute_sync", op[c].command, out, st)
            /\ Finish(c, CmdOutputObservation(call'[c].stdout, call'[c].exit_status,
                                              op[c].command))
            /\ UNCHANGED raised
       \/ \E e \in Errors :
            /\ Call(c, "execute_sync", op[c].command, "", 0)
            /\ Raise(c, e.type, e.message)
            /\ Finish(c, run_except(e))
    /\ UNCHANGED <<facade, constructed, devbox, remote, localArchives, op,
                   attempt, queries, sleeps, fetched>>

\* runtime.py 95-103
read_file_contents(c) ==
    /\ pc[c] = "read"
    /\ Issue(c, "read_file_contents")
    /\ \/ \E contents \in Stdouts :
            /\ Call(c, "read_file_contents", "path", contents, 0)
            /\ Finish(c, FileReadObservation(contents))
            /\ UNCHANGED raised
       \/ \E e \in Errors :
            /\ Call(c, "read_file_contents", "path", "", 0)
            /\ Raise(c, e.type, e.message)
            /\ Finish(c, read_except(e))
    /\ UNCHANGED <<facade, constructed, devbox, remote, localArchives, op,
                   attempt, queries, sleeps, fetched>>

\* runtime.py 108-127
write_file(c) ==
    /\ pc[c] = "write"
    /\ Issue(c, "write_file")
    /\ Call(c, "write_file", "path", "", 0)
    /\ \/ /\ Finish(c, FileWriteObservation)
          /\ UNCHANGED raised
       \/ \E e \in Errors :
            /\ Raise(c, e.type, e.message)
            /\ Finish(c, write_except(e))
    /\ UNCHANGED <<facade, constructed, devbox, remote, localArchives, op,
                   attempt, queries, sleeps, fetched>>

\* runtime.py 186-196
list_files_execute_sync(c) ==
    /\ pc[c] = "list_files"
    /\ Issue(c, "execute_sync")
    /\ \/ \E out \in Stdouts :
            /\ Call(c, "execute_sync", ls_command, out, 0)
            /\ Finish(c, Returned(out))
            /\ UNCHANGED raised
       \/ \E e \in Errors :
            /\ Call(c, "execute_sync", ls_command, "", 0)
            /\ Raise(c, e.type, e.message)
            /\ Finish(c, list_files_except(e))
    /\ UNCHANGED <<facade, constructed, devbox, remote, localArchives, op,
                   attempt, queries, sleeps, fetched>>

(* ----------------------- RunloopRuntime.copy_to ------------------------ *)

\* runtime.py 142-152: NamedTemporaryFile(suffix='.zip', delete=False) creates the
\* local archive, then the source tree is written into it; the walk or the write
\* may raise.  No statement of copy_to removes the file again.
copy_to_zip(c) ==
    /\ pc[c] = "zip"
    /\ localArchives' = localArchives + 1
    /\ \/ /\ pc' = [pc EXCEPT ![c] = "upload_zip"]
          /\ UNCHANGED <<raised, result>>
       \/ /\ Raise(c, "Exception", "archive error")
          /\ Finish(c, Exc("Exception", "archive error"))
    /\ UNCHANGED <<facade, constructed, devbox, remote, op, frame>>

\* runtime.py 155-159: upload of the archive to tmp_zip_file_path
copy_to_upload_zip(c) ==
    /\ pc[c] = "upload_zip"
    /\ Issue(c, "upload_file")
    /\ Call(c, "upload_file", tmp_zip_file_path(op[c].dest), "", 0)
    /\ \/ /\ remoteFiles' = remoteFiles \cup {tmp_zip_file_path(op[c].dest)}
          /\ pc' = [pc EXCEPT ![c] = "unzip"]
          /\ UNCHANGED <<raised, result>>
       \/ \E e \in Errors :
            /\ Raise(c, e.type, e.message)
            /\ Finish(c, Exc(e.type, e.message))
            /\ UNCHANGED remoteFiles
    /\ UNCHANGED <<facade, constructed, devbox, remoteId, remoteStatus, localArchives,
                   op, attempt, queries, sleeps, fetched>>

\* the remote shell running 'unzip <source> -d <dest> && rm <tmp>': rm runs only
\* when unzip succeeded, and unzip needs its source archive to exist
unzip_and_rm(files, source, tmp, extracted) ==
    IF source \in files /\ extracted THEN files \ {tmp} ELSE files

\* runtime.py 163: the parts of the extraction command
\*   f'unzip /tmp/uploaded.zip -d {sandbox_dest} && rm {tmp_zip_file_path}'
unzip_command(sandbox_dest) ==
    [source |-> unzip_source, into |-> sandbox_dest, rm |-> tmp_zip_file_path(sandbox_dest)]
unzip_text(cmd) == "unzip " \o cmd.source \o " -d " \o cmd.into \o " && rm " \o cmd.rm

\* runtime.py 161-164: the extraction command; its result is not looked at
copy_to_unzip(c) ==
    /\ pc[c] = "unzip"
    /\ Issue(c, "execute_sync")
    /\ \/ \E extracted \in BOOLEAN :
            LET cmd == unzip_command(op[c].dest)
                files == unzip_and_rm(remoteFiles, cmd.source, cmd.rm, extracted)
            IN  /\ remoteFiles' = files
                /\ Call(c, "execute_sync", unzip_text(cmd), "",
                        IF cmd.source \in remoteFiles /\ extracted THEN 0 ELSE 1)
                /\ Finish(c, Returned(""))
                /\ UNCHANGED raised
       \/ \E e \in Errors :
            /\ Call(c, "execute_sync", unzip_text(unzip_command(op[c].dest)), "", 0)
            /\ Raise(c, e.type, e.message)
            /\ Finish(c, Exc(e.type, e.message))
            /\ UNCHANGED remoteFiles
    /\ UNCHANGED <<facade, constructed, devbox, remoteId, remoteStatus, localArchives,
                   op, attempt, queries, sleeps, fetched>>

\* runtime.py 167-169
copy_to_is_dir(c) ==
    /\ pc[c] = "is_dir"
    /\ IF is_dir(op[c].src)
       THEN Finish(c, Exc("ValueError", "Recursive copy is required for directories"))
       ELSE /\ pc' = [pc EXCEPT ![c] = "mkdir"]
            /\ UNCHANGED result
    /\ UNCHANGED <<facade, constructed, devbox, remote, localArchives, op, frame, raised>>

\* mutant: the exit status of mkdir is not looked at
copy_to_mkdir_unchecked(c) ==
    /\ pc[c] = "mkdir"
    /\ Issue(c, "execute_sync")
    /\ \/ \E st \in ExitStatuses :
            /\ Call(c, "execute_sync", mkdir_command(op[c].dest), "", st)
            /\ pc' = [pc EXCEPT ![c] = "upload_file"]
            /\ UNCHANGED <<raised, result>>
       \/ \E e \in Errors :
            /\ Call(c, "execute_sync", mkdir_command(op[c].dest), "", 0)
            /\ Raise(c, e.type, e.message)
            /\ Finish(c, Exc(e.type, e.message))
    /\ UNCHANGED <<facade, constructed, devbox, remote, localArchives, op,
                   attempt, queries, sleeps, fetched>>

\* runtime.py 171-175
copy_to_mkdir(c) ==
    /\ pc[c] = "mkdir"
    /\ Issue(c, "execute_sync")
    /\ \/ \E st \in ExitStatuses :
            /\ Call(c, "execute_sync", mkdir_command(op[c].dest), "", st)
            /\ IF st # 0
               THEN /\ Finish(c, Exc("Exception", "Error creating directory"))
                    /\ UNCHANGED raised
               ELSE /\ pc' = [pc EXCEPT ![c] = "upload_file"]
                    /\ UNCHANGED <<raised, result>>
       \/ \E e \in Errors :
            /\ Call(c, "execute_sync", mkdir_command(op[c].dest), "", 0)
            /\ Raise(c, e.type, e.message)
            /\ Finish(c, Exc(e.type, e.message))
    /\ UNCHANGED <<facade, constructed, devbox, remote, localArchives, op,
                   attempt, queries, sleeps, fetched>>

\* runtime.py 177-181
copy_to_upload_file(c) ==
    /\ pc[c] = "upload_file"
    /\ Issue(c, "upload_file")
    /\ Call(c, "upload_file", upload_path(op[c].dest, op[c].src), "", 0)
    /\ \/ /\ Finish(c, Returned(""))
          /\ UNCHANGED raised
       \/ \E e \in Errors :
            /\ Raise(c, e.type, e.message)
            /\ Finish(c, Exc(e.type, e.message))
    /\ UNCHANGED <<facade, constructed, devbox, remote, localArchives, op,
                   attempt, queries, sleeps, fetched>>

(* ------------------------- RunloopRuntime2 ---------------------------- *)

\* runtime2.py 31-97: the semaphore is created, runtime_id and runtime_url are
\* None, then devboxes.create returns the handle or raises
RunloopRuntime2_init(c) ==
    /\ runtime = "RunloopRuntime2"
    /\ pc[c] = "init"
    /\ action_semaphore' = "free"
    /\ runtime_id' = NoId
    /\ runtime_url' = ""
    /\ \/ \E i \in DevboxIds, s \in Statuses :
            /\ devbox' = [id |-> i, status |-> s]
            /\ remoteId' = i
            /\ remoteStatus' = s
            /\ pc' = [pc EXCEPT ![c] = "wait"]
            /\ UNCHANGED <<constructed, result>>
       \/ /\ constructed' = "failed"
          /\ pc' = [pc EXCEPT ![c] = "dead"]
          /\ result' = [result EXCEPT ![c] = Exc("Exception", "")]
          /\ UNCHANGED <<devbox, remoteId, remoteStatus>>
    /\ UNCHANGED <<runtime, tunnels, remoteFiles, localArchives, op, frame, raised>>

\* mutant: the poller returns whatever the cached handle reports
wait_for_devbox_cached_any(c) ==
    /\ runtime = "RunloopRuntime2"
    /\ pc[c] = "wait"
    /\ pc' = [pc EXCEPT ![c] = "create_tunnel"]
    /\ UNCHANGED <<facade, constructed, devbox, remote, localArchives, op, frame,
                   raised, result>>

\* runtime2.py 145-148
wait_for_devbox_cached(c) ==
    /\ runtime = "RunloopRuntime2"
    /\ pc[c] = "wait"
    /\ devbox.status = "running"
    /\ pc' = [pc EXCEPT ![c] = "create_tunnel"]
    /\ UNCHANGED <<facade, constructed, devbox, remote, localArchives, op, frame,
                   raised, result>>

\* runtime2.py 147-156
wait_for_devbox_retrieve(c) ==
    /\ runtime = "RunloopRuntime2"
    /\ pc[c] = "wait"
    /\ devbox.status # "running"
    /\ queries' = [queries EXCEPT ![c] = @ + 1]
    /\ issued' = [issued EXCEPT ![c] = @ \cup {"retrieve"}]
    /\ \/ /\ retrieve(devbox.id).status = "running"
          /\ devbox' = retrieve(devbox.id)
          /\ pc' = [pc EXCEPT ![c] = "create_tunnel"]
          /\ UNCHANGED <<attempt, sleeps, result, constructed>>
       \/ /\ retrieve(devbox.id).status # "running"
          /\ AttemptRaised(c)
          /\ UNCHANGED devbox
       \/ /\ AttemptRaised(c)
          /\ UNCHANGED devbox
    /\ UNCHANGED <<facade, remote, localArchives, op, fetched, raised, call>>

\* runtime2.py 103-109
create_tunnel(c) ==
    /\ runtime = "RunloopRuntime2"
    /\ pc[c] = "create_tunnel"
    /\ tunnels' = tunnels + 1
    /\ \/ /\ runtime_id' = devbox.id
          /\ runtime_url' = "https://" \o "tunnel.runloop.dev"
          /\ pc' = [pc EXCEPT ![c] = "init_rest"]
          /\ UNCHANGED <<constructed, result>>
       \/ /\ constructed' = "failed"
          /\ pc' = [pc EXCEPT ![c] = "dead"]
          /\ result' = [result EXCEPT ![c] = Exc("Exception", "")]
          /\ UNCHANGED <<runtime_id, runtime_url>>
    /\ UNCHANGED <<runtime, action_semaphore, devbox, remote, localArchives, op,
                   frame, raised>>

\* runtime2.py 116-137: Runtime.__init__, the inherited _wait_until_alive and
\* setup_initial_env complete or raise
RunloopRuntime2_init_rest(c) ==
    /\ runtime = "RunloopRuntime2"
    /\ pc[c] = "init_rest"
    /\ \/ /\ constructed' = "yes"
          /\ pc' = [pc EXCEPT ![c] = "idle"]
          /\ UNCHANGED result
       \/ /\ constructed' = "failed"
          /\ pc' = [pc EXCEPT ![c] = "dead"]
          /\ result' = [result EXCEPT ![c] = Exc("Exception", "")]
    /\ UNCHANGED <<facade, devbox, remote, localArchives, op, frame, raised>>

\* runtime2.py 158-161: close is a placeholder, it returns None
close(c) ==
    /\ runtime = "RunloopRuntime2"
    /\ constructed = "yes"
    /\ pc[c] = "idle"
    /\ result' = [result EXCEPT ![c] = Returned("")]
    /\ UNCHANGED <<facade, constructed, devbox, remote, localArchives, pc, op, frame,
                   raised>>

(* --------------------------- the provider ----------------------------- *)

\* the provider moves the devbox to another status at any time
provider_status_change ==
    /\ remoteId # NoId
    /\ \E s \in Statuses \ {remoteStatus} : remoteStatus' = s
    /\ UNCHANGED <<facade, constructed, devbox, remoteId, remoteFiles, localArchives,
                   pc, op, frame, raised, result>>

(* -------------------------- specifications ---------------------------- *)

Construct(c) ==
    \/ RunloopRuntime_init(c)
    \/ RunloopRuntime2_init(c)
    \/ wait_for_devbox_cached(c)
    \/ wait_for_devbox_retrieve(c)
    \/ create_tunnel(c)
    \/ RunloopRuntime2_init_rest(c)
    \/ close(c)

Poll(c) ==
    \/ wait_until_alive_retrieve(c)
    \/ wait_until_alive_cd(c)

Act(c) ==
    \/ run(c)
    \/ read(c)
    \/ write(c)
    \/ list_files(c)
    \/ copy_to(c)
    \/ wait_until_alive_cached(c)
    \/ run_execute_sync(c)
    \/ read_file_contents(c)
    \/ write_file(c)
    \/ list_files_execute_sync(c)
    \/ copy_to_zip(c)
    \/ copy_to_upload_zip(c)
    \/ copy_to_unzip(c)
    \/ copy_to_is_dir(c)
    \/ copy_to_mkdir(c)
    \/ copy_to_upload_file(c)

\* one thread constructs the runtime and then issues its actions one at a time
Next ==
    \/ Construct(MainCaller)
    \/ Poll(MainCaller)
    \/ Act(MainCaller)
    \/ provider_status_change

Spec == Init /\ [][Next]_vars

\* a constructed RunloopRuntime whose handle has been adopted as running (a state
\* Spec reaches), with no action in flight
InitConc ==
    /\ runtime = "RunloopRuntime"
    /\ constructed = "yes"
    /\ devbox = [id |-> NumIds, status |-> "running"]
    /\ remoteId = NumIds
    /\ action_semaphore = "unset"
    /\ runtime_id = NoId
    /\ runtime_url = ""
    /\ tunnels = 0
    /\ remoteStatus = "running"
    /\ remoteFiles = {}
    /\ localArchives = 0
    /\ pc = [c \in Callers |-> "idle"]
    /\ op = [c \in Callers |-> NoOp]
    /\ attempt = [c \in Callers |-> 1]
    /\ queries = [c \in Callers |-> 0]
    /\ sleeps = [c \in Callers |-> 0]
    /\ issued = [c \in Callers |-> {}]
    /\ fetched = [c \in Callers |-> NoDevbox]
    /\ raised = [c \in Callers |-> NoRaise]
    /\ call = [c \in Callers |-> NoCall]
    /\ result = [c \in Callers |-> NoResult]

\* several threads call the public actions of that runtime concurrently.  The
\* handle is never set back from running, so the status query and the session
\* initialisation of the poller are never enabled from InitConc.
NextConc ==
    \/ \E c \in Callers : Act(c)
    \/ provider_status_change

SpecConc == InitConc /\ [][NextConc]_vars

\* a constructed RunloopRuntime whose handle is still pending (a state Spec
\* reaches right after __init__), with no action in flight
InitPoll ==
    /\ runtime = "RunloopRuntime"
    /\ constructed = "yes"
    /\ devbox = [id |-> NumIds, status |-> "pending"]
    /\ remoteId = NumIds
    /\ action_semaphore = "unset"
    /\ runtime_id = NoId
    /\ runtime_url = ""
    /\ tunnels = 0
    /\ remoteStatus = "pending"
    /\ remoteFiles = {}
    /\ localArchives = 0
    /\ pc = [c \in Callers |-> "idle"]
    /\ op = [c \in Callers |-> NoOp]
    /\ attempt = [c \in Callers |-> 1]
    /\ queries = [c \in Callers |-> 0]
    /\ sleeps = [c \in Callers |-> 0]
    /\ issued = [c \in Callers |-> {}]
    /\ fetched = [c \in Callers |-> NoDevbox]
    /\ raised = [c \in Callers |-> NoRaise]
    /\ call = [c \in Callers |-> NoCall]
    /\ result = [c \in Callers |-> NoResult]

\* several threads call run on that runtime concurrently, each through its own
\* readiness poll (followed for the first PollBound attempts)
NextPoll ==
    \/ \E c \in Callers :
          \/ run(c)
          \/ attempt[c] <= PollBound /\ Poll(c)
          \/ wait_until_alive_cached(c)
          \/ run_execute_sync(c)
    \/ provider_status_change

SpecPoll == InitPoll /\ [][NextPoll]_vars

TypeOK ==
    /\ runtime \in Runtimes
    /\ constructed \in {"no", "yes", "failed"}
    /\ devbox \in [id : DevboxIds \cup {NoId}, status : Statuses \cup {"none"}]
    /\ action_semaphore \in {"unset", "free", "held"}
    /\ tunnels \in Nat
    /\ localArchives \in Nat
    /\ \A c \in Callers :
        /\ op[c] \in Ops \cup {NoOp}
        /\ attempt[c] \in 1..DevboxAttempts
        /\ queries[c] \in 0..DevboxAttempts
        /\ issued[c] \subseteq {"retrieve", "execute_sync", "upload_file",
                                "read_file_contents", "write_file"}

(* ------------------------------- claims ------------------------------- *)

\* an action of caller c has been invoked and has not ended
InFlight(c) == pc[c] \in {"wait", "cd"} \cup BodyPcs
\* an action of caller c has issued a remote call and has more steps to take
MidAction(c) == pc[c] \in BodyPcs /\ issued[c] # {}

\* C1: the remote calls of two actions invoked concurrently on the same handle
\* never interleave: no action issues a remote call while another action that has
\* already issued one has not ended.
C1_NoInterleavedRemoteCalls ==
    \A c1, c2 \in Callers : c1 # c2 => ~(MidAction(c1) /\ MidAction(c2))

\* C2: the serialization lock is acquired before an action is dispatched and held
\* until the action ends: whenever an action is in flight the semaphore is held,
\* and it is free again when no action is in flight.
C2_LockHeldWhileInFlight ==
    /\ \A c \in Callers :
         (op[c] # NoOp /\ InFlight(c)) => action_semaphore = "held"
    /\ (\A c \in Callers : ~InFlight(c)) => action_semaphore # "held"

\* C3: the poller never issues more status queries than its attempt cap, and when
\* it gives up (RetryError) it has issued exactly as many queries as the cap.
C3_QueriesEqualCap ==
    \A c \in Callers :
        /\ queries[c] <= WaitCap
        /\ result[c].type = "RetryError" => queries[c] = WaitCap /\ attempt[c] = WaitCap

\* C3 witness: _wait_until_alive gave up after 60 queries none of which reported
\* running (the session-initialisation command was never issued).
C3_Witness ==
    \E c \in Callers :
        /\ runtime = "RunloopRuntime"
        /\ result[c].type = "RetryError"
        /\ queries[c] = AliveAttempts
        /\ issued[c] = {"retrieve"}

\* C4: when the cached handle reports running, the poller returns at once: the
\* step that leaves it issues no status query, no other remote call and no sleep,
\* and leaves the handle as it is.
C4_CachedRunningReturns ==
    [][\A c \in Callers :
          (pc[c] = "wait" /\ devbox.status = "running" /\ pc'[c] # "wait")
          => /\ pc'[c] \in BodyPcs \cup {"create_tunnel"}
             /\ queries'[c] = queries[c]
             /\ issued'[c] = issued[c]
             /\ sleeps'[c] = sleeps[c]
             /\ attempt'[c] = attempt[c]
             /\ devbox' = devbox]_vars

\* C4 witness: an action is past its readiness check having issued no remote call
\* and slept never.
C4_Witness ==
    \E c \in Callers :
        /\ pc[c] \in BodyPcs
        /\ devbox.status = "running"
        /\ queries[c] = 0 /\ issued[c] = {} /\ sleeps[c] = 0

C6_NoRemoteCallOnDirectory ==
    \A c \in Callers :
        (op[c].kind = "copy_to" /\ ~op[c].recursive /\ is_dir(op[c].src))
        => /\ issued[c] = {}
           /\ (pc[c] = "idle" => result[c].type = "ValueError")

\* C7: when the remote call of run, read or write raises a provider status error,
\* the action returns an Error observation carrying the provider message.
C7_StatusErrorBecomesObservation ==
    \A c \in Callers :
        (op[c].kind \in {"run", "read", "write"} /\ raised[c].type = "APIStatusError")
        => result[c] = ErrorObservation(raised[c].message)

\* a recursive copy_to of caller c has ended after its archive was uploaded
UploadedAndEnded(c) ==
    /\ pc[c] = "idle"
    /\ op[c].kind = "copy_to" /\ op[c].recursive
    /\ result[c].type = "returned" \/ raised[c].at = "unzip"

\* C8: once a recursive copy_to has uploaded its archive, the remote temporary
\* archive is gone when the copy has ended, however it ended.
C8_RemoteArchiveDeleted ==
    \A c \in Callers :
        UploadedAndEnded(c) => tmp_zip_file_path(op[c].dest) \notin remoteFiles

\* C9: when no recursive copy_to is running, no local temporary archive exists.
C9_NoLocalArchiveLeft ==
    (\A c \in Callers : pc[c] \notin {"upload_zip", "unzip"}) => localArchives = 0

\* C10: an action whose readiness check completes while the provider reports the
\* devbox not running has observed that through a status query of its own.
C10_RegressionObserved ==
    [][\A c \in Callers :
          (pc[c] = "wait" /\ remoteStatus # "running" /\ pc'[c] \in BodyPcs)
          => queries'[c] >= 1]_vars

\* the body of the action invoked by caller c has been entered or has issued its
\* own remote operation
Dispatched(c) == pc[c] \in BodyPcs \/ call[c] # NoCall

\* C11: no public action dispatches its own remote operation while the cached
\* handle is not running: the body of an action is entered, and its remote
\* operation issued, only with the cached handle reporting running, and an action
\* whose readiness wait gave up has issued no remote operation of its own.
C11_ReadyBeforeDispatch ==
    \A c \in Callers :
        /\ Dispatched(c) => devbox.status = "running"
        /\ result[c].type = "RetryError"
           => /\ call[c] = NoCall
              /\ raised[c] = NoRaise
              /\ issued[c] \subseteq {"retrieve", "execute_sync"}

\* C11 witness: an action issued its own remote operation after a readiness wait
\* that had to query the provider.
C11_Witness ==
    \E c \in Callers :
        /\ call[c] # NoCall
        /\ queries[c] >= 1
        /\ devbox.status = "running"

\* C12: when the execution call of a run action returns normally, the observation
\* carries exactly the stdout and exit status that call reported and the command
\* of the action, and the call was issued with that command.
C12_RunObservationFidelity ==
    \A c \in Callers :
        (/\ op[c].kind = "run"
         /\ call[c].name = "execute_sync"
         /\ raised[c].type = "none")
        => /\ pc[c] = "idle"
           /\ result[c].type = "CmdOutputObservation"
           /\ result[c].content = call[c].stdout
           /\ result[c].exit_code = call[c].exit_status
           /\ result[c].command = op[c].command
           /\ call[c].arg = op[c].command

\* C12 witness: a run ended with the observation of an execution that reported a
\* nonzero exit status.
C12_Witness ==
    \E c \in Callers :
        /\ op[c].kind = "run"
        /\ result[c].type = "CmdOutputObservation"
        /\ call[c].exit_status = 1
        /\ call[c].stdout = "out2"

\* C13: while RunloopRuntime2 is constructed the tunnel is requested at most once,
\* only for a created sandbox whose handle reports running after the readiness
\* poller returned; when readiness or the tunnel request fails the construction
\* fails and no runtime URL is published.
C13_TunnelOnceAfterReady ==
    runtime = "RunloopRuntime2" =>
        /\ tunnels <= 1
        /\ \A c \in Callers :
             /\ pc[c] \in {"create_tunnel", "init_rest"}
                => devbox.id # NoId /\ devbox.status = "running"
             /\ pc[c] \in {"init", "wait", "create_tunnel"} => tunnels = 0
             /\ result[c].type = "RetryError"
                => constructed = "failed" /\ tunnels = 0 /\ runtime_url = ""
        /\ tunnels = 1 => devbox.id # NoId /\ devbox.status = "running"
        /\ runtime_url # "" => tunnels = 1 /\ runtime_id = devbox.id
        /\ (tunnels = 1 /\ runtime_url = "") => constructed = "failed"
        /\ constructed = "yes" => runtime_url # ""

\* C13 witness: the URL was published after one tunnel request that followed a
\* readiness wait which queried the provider.
C13_Witness ==
    /\ runtime = "RunloopRuntime2"
    /\ runtime_url # ""
    /\ tunnels = 1
    /\ queries[MainCaller] >= 1

\* C14: the id of the handle is assigned once, by the create call, and is the
\* same in every later state: no step changes an assigned id, and after every
\* step the handle, and every refreshed handle a poller holds, carries the id the
\* create call returned.
C14_HandleIdFixed ==
    [][/\ devbox.id # NoId => devbox'.id = devbox.id /\ remoteId' = remoteId
       /\ devbox'.id = remoteId'
       /\ \A c \in Callers : fetched'[c] # NoDevbox => fetched'[c].id = remoteId']_vars

\* C14 witness: the handle in use was adopted from a status query, and an action
\* has run on it.
C14_Witness ==
    \E c \in Callers :
        /\ devbox.id = remoteId /\ devbox.id # NoId
        /\ devbox.status = "running"
        /\ queries[c] >= 1
        /\ call[c] # NoCall

\* C15: the handle is changed only by the creation step and by the readiness
\* poller: a step that changes it is a step of __init__ or of the poller, so the
\* bodies of run, read, write, copy_to, list_files and close leave it as it is.
C15_HandleFrame ==
    [][devbox' # devbox =>
          \E c \in Callers :
              /\ pc[c] \in {"init", "wait", "cd"}
              /\ pc'[c] # pc[c]]_vars

\* C15 witness: the body of an action failed and the handle still reports running.
C15_Witness ==
    \E c \in Callers :
        /\ op[c].kind = "run"
        /\ pc[c] = "idle"
        /\ raised[c].type # "none"
        /\ devbox.status = "running"

\* a non-recursive copy_to of a regular file invoked by caller c
CopiesFile(c) == op[c].kind = "copy_to" /\ ~op[c].recursive /\ ~is_dir(op[c].src)

\* C16: in a non-recursive copy_to of a regular file the upload is reached only
\* after mkdir -p <destination> reported exit status 0; a nonzero exit status ends
\* the copy with the fatal error and no upload; the upload goes to
\* <destination>/<basename of the source>.
C16_MkdirCheckedBeforeUpload ==
    \A c \in Callers :
        CopiesFile(c) =>
            /\ pc[c] = "upload_file"
               => call[c] = [name |-> "execute_sync", arg |-> "mkdir -p " \o op[c].dest,
                             stdout |-> "", exit_status |-> 0]
            /\ (call[c].name = "execute_sync" /\ call[c].exit_status # 0)
               => /\ pc[c] = "idle"
                  /\ result[c] = Exc("Exception", "Error creating directory")
                  /\ "upload_file" \notin issued[c]
            /\ "upload_file" \in issued[c]
               => /\ "execute_sync" \in issued[c]
                  /\ call[c].name = "upload_file"
                  /\ call[c].arg = op[c].dest \o "/file.txt"

\* C16 witness: a non-recursive copy of a file ended after the upload.
C16_Witness ==
    \E c \in Callers :
        /\ CopiesFile(c)
        /\ pc[c] = "idle"
        /\ result[c].type = "returned"
        /\ call[c].name = "upload_file"

\* C17: in a recursive copy_to the command issued after the upload extracts the
\* archive from the remote path it was uploaded to and deletes that same path,
\* for every destination; the upload precedes the command.
C17_ExtractsUploadedArchive ==
    \A c \in Callers :
        (op[c].kind = "copy_to" /\ op[c].recursive /\ call[c].name = "execute_sync")
        => /\ "upload_file" \in issued[c]
           /\ call[c].arg = unzip_text([source |-> tmp_zip_file_path(op[c].dest),
                                        into |-> op[c].dest,
                                        rm |-> tmp_zip_file_path(op[c].dest)])

\* C18: in run, read and write an exception of the remote call that is not a
\* provider status error is not converted into an observation: the action ends
\* with that exception.
C18_OtherExceptionsPropagate ==
    \A c \in Callers :
        (op[c].kind \in {"run", "read", "write"} /\ raised[c].type = "Exception")
        => result[c] = Exc("Exception", raised[c].message)

\* C19: the cached handle of RunloopRuntime becomes running only by the step in
\* which the session-initialisation command of the same attempt returned; when
\* that command raises, the refreshed handle is not adopted and the attempt is
\* counted and retried; and the command is never issued once the handle is
\* adopted.
C19_AdoptedOnlyAfterInit ==
    [][runtime = "RunloopRuntime" => \A c \in Callers :
          /\ (devbox.status # "running" /\ devbox'.status = "running")
             => \E d \in Callers :
                    /\ pc[d] = "cd"
                    /\ pc'[d] \in BodyPcs
                    /\ "execute_sync" \in issued'[d]
                    /\ attempt'[d] = attempt[d]
                    /\ devbox' = fetched[d]
          /\ (pc[c] = "cd" /\ pc'[c] = "wait")
             => /\ devbox' = devbox
                /\ attempt'[c] = attempt[c] + 1
          /\ (pc[c] = "cd" /\ pc'[c] # "cd") => devbox.status # "running"]_vars

====
